---- MODULE Spec2Model ----
(***************************************************************************)
(* A model of the prediction backend of IDS_XAI (src/backend/app.py and   *)
(* the older copy src/backend/data/app.py).                               *)
(*                                                                         *)
(* The process loads a tree model, a label mapping and a feature-name     *)
(* list once at import time; every request handler then runs to its end   *)
(* on that shared state.  One action of the model is one whole handler.   *)
(*                                                                         *)
(* The account handlers (signup, login, verify) share data/users.json,    *)
(* which they read and write as a whole; a handler that writes takes two  *)
(* steps, its read and its write, and worker threads interleave them.     *)
(* The model is of the server without MongoDB (mongo_enabled = False).    *)
(*                                                                         *)
(* Numbers.  A feature value is a Python float.  The model keeps the      *)
(* integer-valued ones, as TLA+ integers; Float32 is numpy's conversion   *)
(* to 32-bit floats on them (round to nearest, ties to even, 24 bits of   *)
(* mantissa), and Inf stands for the float +inf.                          *)
(*                                                                         *)
(* Indices.  Python sequences are 0-based, TLA+ sequences 1-based: a      *)
(* feature index that the program reports (top_features) is kept 0-based, *)
(* so feature index k is element k+1 of a TLA+ sequence.                  *)
(***************************************************************************)
EXTENDS Integers, Sequences, FiniteSets, TLC

VARIABLES
    model,                    \* app.py:72-84   the loaded model, or None
    LABEL_MAPPING,            \* app.py:91-104  attack name -> class id, in file order
    ATTACK_TYPES,             \* app.py:107     class id -> attack name
    FEATURE_NAMES,            \* app.py:87,122-137
    MODEL_EXPECTED_FEATURES,  \* app.py:88
    argsort_ties,             \* how the numpy build orders equal values in np.argsort
    req,                      \* the request handled last
    resp,                     \* its response
    log,                      \* the steps the handler performed for it, in order
    earlier,                  \* a request and its response that a client has kept, if any
    users_file,               \* app.py:220    the contents of data/users.json
    issued,                   \* app.py:294-296 how many verification tokens were created
    calls,                    \* the signup and verify requests in flight, per worker thread
    verified_with,            \* the tokens with which a verify request has succeeded
    signed_up                 \* the lower-cased emails whose signup has answered success

shared == <<model, LABEL_MAPPING, ATTACK_TYPES, FEATURE_NAMES, MODEL_EXPECTED_FEATURES>>

\* the state of the prediction endpoints and of their client
serving == <<argsort_ties, req, resp, log, earlier>>

\* the state of the account endpoints
accounts == <<users_file, issued, calls, verified_with, signed_up>>

vars == <<model, LABEL_MAPPING, ATTACK_TYPES, FEATURE_NAMES, MODEL_EXPECTED_FEATURES,
          argsort_ties, req, resp, log, earlier, users_file, issued, calls, verified_with,
          signed_up>>

(***************************************************************************)
(* Bounds of the model.                                                    *)
(***************************************************************************)
\* feature vectors of 0..MaxShort values are sent, and ...
MaxShort == 3
\* ... vectors of one less than the expected width up to MaxExtra more than it
MaxExtra == 2
\* a parsed CSV holds at most MaxRows rows
MaxRows == 3
\* get_attack_info is applied to the class ids -2..MaxClassId
MaxClassId == 17

(***************************************************************************)
(* Sequence helpers.                                                       *)
(***************************************************************************)
Range(s) == {s[i] : i \in 1..Len(s)}

\* the sequence s itself, as an explicit tuple: TLC then computes each element
\* once instead of at every use
Tuple(s) == SubSeq(s, 1, Len(s))

Abs(x) == IF x < 0 THEN -x ELSE x

\* Python's s.endswith(suffix) on strings
EndsWith(s, suffix) ==
    /\ Len(s) >= Len(suffix)
    /\ SubSeq(s, Len(s) - Len(suffix) + 1, Len(s)) = suffix

\* Python's (sub in s) on strings
Contains(s, sub) ==
    \E i \in 1..(Len(s) - Len(sub) + 1) : SubSeq(s, i, i + Len(sub) - 1) = sub

(***************************************************************************)
(* Floats.                                                                 *)
(***************************************************************************)
\* the float +inf (json.loads reads Infinity, pandas reads "inf")
Inf == 2^30

TwoTo24 == 2^24

\* the spacing of the 32-bit floats around the integer a >= 0
RECURSIVE Float32Unit(_, _)
Float32Unit(a, u) == IF a < TwoTo24 * u THEN u ELSE Float32Unit(a, 2 * u)

\* np.array(..., dtype=np.float32) on one value: the nearest 32-bit float, a tie
\* going to the even mantissa
Float32(x) ==
    IF x = Inf THEN Inf
    ELSE LET a == Abs(x)
             u == Float32Unit(a, 1)
             q == a \div u
             r == a % u
             m == IF 2 * r > u \/ (2 * r = u /\ q % 2 = 1) THEN q + 1 ELSE q
         IN  IF x < 0 THEN -(m * u) ELSE m * u

(***************************************************************************)
(* Results of a call: a value, or a raised exception.                      *)
(***************************************************************************)
Ok(v) == [raised |-> FALSE, value |-> v, exc |-> "", status |-> 0, detail |-> ""]

\* raise <exc>(detail); status is the status code of an HTTPException
Raise(e, st, d) == [raised |-> TRUE, value |-> <<>>, exc |-> e, status |-> st, detail |-> d]

(***************************************************************************)
(* Startup: the module-level code of app.py.                               *)
(***************************************************************************)
\* model = None (app.py:81, 84)
None ==
    [ loaded |-> FALSE, n_features |-> 0, n_classes |-> 0, bias |-> 0, kind |-> "none",
      explained |-> "none" ]

\* a frozen tree ensemble trained on 78 features.  kind names how its
\* attributions are spread: "sparse" credits three features only (all others
\* exactly 0, so magnitudes tie), "ranked" gives pairwise different magnitudes.
\* explained names what shap.TreeExplainer(model).shap_values(input_array)
\* returns for it (see ExplainerShapValues).
Model(n_classes, bias, kind, explained) ==
    [ loaded |-> TRUE, n_features |-> 78, n_classes |-> n_classes, bias |-> bias,
      kind |-> kind, explained |-> explained ]

\* What joblib.load can return (app.py:77).  A classifier of two classes has
\* one output, and its attributions are one matrix (rows x features).  A
\* classifier of the 16 classes of the label mapping has one output per class,
\* and its attributions are a list of such matrices, one per class (shap up to
\* 0.44), or one array (rows x features x classes) (shap from 0.45 on).
Models ==
    { Model(2, 1, "sparse", "matrix"),
      Model(2, 1, "ranked", "matrix"),
      Model(16, 5, "sparse", "list"),
      Model(16, 5, "sparse", "array") }

\* the default labels (app.py:98-104)
DefaultLabels ==
    << <<"Benign", 0>>, <<"Bot", 1>>, <<"Brute Force -Web", 2>>, <<"Brute Force -XSS", 3>>,
       <<"DDOS attack-HOIC", 4>>, <<"DDOS attack-LOIC-UDP", 5>>, <<"DDoS attacks-LOIC-HTTP", 6>>,
       <<"DoS attacks-GoldenEye", 7>>, <<"DoS attacks-Hulk", 8>>, <<"DoS attacks-SlowHTTPTest", 9>>,
       <<"DoS attacks-Slowloris", 10>>, <<"FTP-BruteForce", 11>>, <<"Infilteration", 12>>,
       <<"Label", 13>>, <<"SQL Injection", 14>>, <<"SSH-Bruteforce", 15>> >>

\* Contents of data/label_mapping.json: absent; or a mapping of fewer classes
\* than the model has, without class 0, in which two names share an id.
LabelFiles ==
    { [present |-> FALSE, items |-> <<>>],
      [present |-> TRUE,  items |-> << <<"Probe", 3>>, <<"Scan", 1>>, <<"Sweep", 1>> >>] }

\* the try/except of app.py:91-104
LoadLabelMapping(file) == IF file.present THEN file.items ELSE DefaultLabels

\* {v: k for k, v in LABEL_MAPPING.items()} (app.py:107): a later item overwrites
\* an earlier one of the same id
ReverseMapping(items) ==
    [id \in {items[i][2] : i \in 1..Len(items)} |->
        LET last == CHOOSE i \in 1..Len(items) :
                        /\ items[i][2] = id
                        /\ \A j \in (i + 1)..Len(items) : items[j][2] # id
        IN  items[last][1]]

\* Contents of data/feature_names.json: absent, or a list of n names
FeatureFile(n) == [present |-> TRUE, names |-> [i \in 1..n |-> "col_" \o ToString(i)]]

\* absent, shorter than, as long as and longer than the expected width
FeatureFiles(expected) ==
    { [present |-> FALSE, names |-> <<>>],
      FeatureFile(MaxShort), FeatureFile(expected), FeatureFile(expected + MaxExtra) }

\* app.py:122-137
LoadFeatureNames(file, expected) ==
    IF ~file.present
    THEN [i \in 1..expected |-> "Feature_" \o ToString(i)]
    ELSE IF Len(file.names) < expected
         THEN file.names \o
              [i \in 1..(expected - Len(file.names)) |-> "Additional_Feature_" \o ToString(i)]
         ELSE file.names

(***************************************************************************)
(* The label resolver.                                                     *)
(***************************************************************************)
\* a get_attack_info that takes "vulnerable" to mean "a known attack class"
get_attack_info_known_only(prediction) ==
    [ attack_type |-> IF prediction \in DOMAIN ATTACK_TYPES
                      THEN ATTACK_TYPES[prediction]
                      ELSE "Unknown (" \o ToString(prediction) \o ")",
      is_vulnerable |-> prediction \in DOMAIN ATTACK_TYPES /\ prediction # 0,
      vulnerability_status |-> IF prediction \in DOMAIN ATTACK_TYPES /\ prediction # 0
                               THEN "Attack Detected" ELSE "Safe (Benign)",
      prediction_number |-> prediction ]

\* a get_attack_info whose placeholder does not embed the id
get_attack_info_plain_unknown(prediction) ==
    [ attack_type |-> IF prediction \in DOMAIN ATTACK_TYPES
                      THEN ATTACK_TYPES[prediction]
                      ELSE "Unknown",
      is_vulnerable |-> prediction # 0,
      vulnerability_status |-> IF prediction # 0 THEN "Attack Detected" ELSE "Safe (Benign)",
      prediction_number |-> prediction ]

\* get_attack_info (app.py:109-120)
get_attack_info(prediction) ==
    LET attack_type == IF prediction \in DOMAIN ATTACK_TYPES
                       THEN ATTACK_TYPES[prediction]
                       ELSE "Unknown (" \o ToString(prediction) \o ")"
        is_vulnerable == prediction # 0
        vulnerability_status == IF is_vulnerable THEN "Attack Detected" ELSE "Safe (Benign)"
    IN  [ attack_type |-> attack_type,
          is_vulnerable |-> is_vulnerable,
          vulnerability_status |-> vulnerability_status,
          prediction_number |-> prediction ]

(***************************************************************************)
(* The libraries the handlers call: the tree model, the explainer, numpy.  *)
(* They are outside the repository; the model fixes, for each, one         *)
(* deterministic function of its input.                                    *)
(***************************************************************************)
\* model.predict(input_array) raises (app.py:612, 685): the array is not as wide
\* as the model was trained, or holds a value that is not finite
ModelRaises(m, x) ==
    \/ Len(x) # m.n_features
    \/ \E i \in 1..Len(x) : x[i] = Inf

\* a model that goes on learning: its answer drifts once a response is kept
ModelPredictDrifting(m, x) ==
    (m.bias + Len(earlier) + (x[1] % 16) + 3 * (x[2] % 16) + (x[Len(x)] % 16)) % m.n_classes

\* model.predict(input_array)[0] (app.py:612, 685): the class of the row
ModelPredict(m, x) ==
    (m.bias + (x[1] % 16) + 3 * (x[2] % 16) + (x[Len(x)] % 16)) % m.n_classes

\* the attributions of the features of the row x to one output of the model
ShapValues(m, x) ==
    Tuple([i \in 1..Len(x) |->
        IF m.kind = "sparse"
        THEN IF i \in {2, 40, 77} THEN (x[i] % 5) - 2 ELSE 0
        ELSE (IF i % 2 = 0 THEN 1 ELSE -1) * (2 * i + (x[i] % 2))])

\* the attributions of the features of the row x to the output of class c
ClassShapValues(m, x, c) ==
    LET one == ShapValues(m, x)
    IN  Tuple([i \in 1..Len(x) |-> ((one[i] + c * i) % 7) - 3])

\* shap.TreeExplainer(model).shap_values(input_array)[0] (app.py:618-619, 691-692),
\* input_array being one row.  Of the matrix of a model of one output,
\* element 0 is the row of the attributions, one per feature.  Of the list of
\* matrices, element 0 is the matrix of class 0: one row of attributions
\* (1 x features).  Of the array, element 0 is the part of the row: per
\* feature, one attribution per class (features x classes).
ExplainerShapValues(m, x) ==
    CASE m.explained = "matrix" -> ShapValues(m, x)
      [] m.explained = "list"   -> <<ClassShapValues(m, x, 0)>>
      [] m.explained = "array"  ->
            LET of_class == Tuple([c \in 1..m.n_classes |-> ClassShapValues(m, x, c - 1)])
            IN  Tuple([i \in 1..Len(x) |-> Tuple([c \in 1..m.n_classes |-> of_class[c][i]])])

\* shap_values[0] is an array of one dimension
OneDimensional(m) == m.explained = "matrix"

\* The orders in which np.argsort (quicksort, not stable) may leave elements of
\* equal value: by ascending index (1), as a stable sort does, or mixed (5).
\* The order is a property of the numpy build, fixed for the life of the process.
TieOrders == {1, 5}

TieKey(t, i) == (i * t) % 79

\* np.argsort(a) under tie order t: the 1-based positions of a, by ascending value
Argsort(a, t) ==
    LET n == Len(a)
        value == Tuple([i \in 1..n |-> a[i]])
        key == Tuple([i \in 1..n |-> TieKey(t, i) * (n + 1) + i])
        Before(i, j) ==
            \/ value[i] < value[j]
            \/ value[i] = value[j] /\ key[i] < key[j]
    IN  SortSeq(Tuple([i \in 1..n |-> i]), Before)

\* s[::-1]
Reversed(s) == [i \in 1..Len(s) |-> s[Len(s) + 1 - i]]

\* s[:k]
Prefix(s, k) == SubSeq(s, 1, IF k < Len(s) THEN k ELSE Len(s))

\* np.abs(v)
NpAbs(v) == Tuple([i \in 1..Len(v) |-> Abs(v[i])])

\* np.argsort(np.abs(shap_values[0]))[::-1][:5] (app.py:620, 693), as 0-based
\* feature indices
TopFeatures(shap_values, t) ==
    LET top == Prefix(Reversed(Argsort(NpAbs(shap_values), t)), 5)
    IN  [j \in 1..Len(top) |-> top[j] - 1]

\* the same expression when shap_values[0] has two dimensions: np.abs works
\* on the elements, np.argsort sorts within each row (the last axis), and
\* [::-1] and [:5] reverse and cut the sequence of the rows (the first axis)
TopFeaturesOfRows(shap_values, t) ==
    LET sorted == [i \in 1..Len(shap_values) |-> Argsort(NpAbs(shap_values[i]), t)]
        top == Prefix(Reversed(sorted), 5)
    IN  Tuple([j \in 1..Len(top) |-> Tuple([k \in 1..Len(top[j]) |-> top[j][k] - 1])])

\* np.argsort(np.abs(shap_values[0]))[::-1][:5].tolist() for model m
shap_top_features_tolist(m, shap_values, t) ==
    IF OneDimensional(m) THEN TopFeatures(shap_values, t) ELSE TopFeaturesOfRows(shap_values, t)

(***************************************************************************)
(* The feature aligner.                                                    *)
(***************************************************************************)
\* a preprocess_features that fills the missing features in front
preprocess_features_pad_front(features, feature_names) ==
    LET expected_features == MODEL_EXPECTED_FEATURES
        provided_features == Len(features)
        processed_features ==
            IF provided_features > expected_features
            THEN SubSeq(features, 1, expected_features)
            ELSE [i \in 1..(expected_features - provided_features) |-> 0] \o features
    IN  Ok(Tuple([i \in 1..Len(processed_features) |-> Float32(processed_features[i])]))

\* a preprocess_features that looks the columns up by name: the value of a
\* feature is taken from the input column that bears its name, if there is one
preprocess_features_by_name(features, feature_names) ==
    LET expected_features == MODEL_EXPECTED_FEATURES
        Named(i) == {j \in 1..Len(features) :
                        /\ j <= Len(feature_names)
                        /\ i <= Len(FEATURE_NAMES)
                        /\ feature_names[j] = FEATURE_NAMES[i]}
        Column(i) == IF Named(i) # {} THEN CHOOSE j \in Named(i) : TRUE ELSE i
    IN  Ok(Tuple([i \in 1..expected_features |->
                    IF Column(i) <= Len(features) THEN Float32(features[Column(i)]) ELSE 0]))

\* preprocess_features (app.py:155-191); the array of shape (1, n) is its one row
preprocess_features(features, feature_names) ==
    LET expected_features == MODEL_EXPECTED_FEATURES
        provided_features == Len(features)
        processed_features ==
            IF provided_features > expected_features
            THEN SubSeq(features, 1, expected_features)
            ELSE IF provided_features < expected_features
                 THEN features \o [i \in 1..(expected_features - provided_features) |-> 0]
                 ELSE features
    IN  IF Len(processed_features) # expected_features
        THEN Raise("ValueError", 0, "Feature count mismatch")
        ELSE Ok(Tuple([i \in 1..Len(processed_features) |-> Float32(processed_features[i])]))

(***************************************************************************)
(* Requests, responses and the steps of a handler.                         *)
(***************************************************************************)
NoFile == [filename |-> "", decodable |-> TRUE, parsable |-> TRUE, columns |-> <<>>, cells |-> <<>>]

Request(endpoint, features, file, prediction) ==
    [endpoint |-> endpoint, features |-> features, file |-> file, prediction |-> prediction]

\* a step the handler performed, for row `row` of a batch (0: not in a batch)
Step(name, row) == [step |-> name, row |-> row]

\* a JSON response of status 200
Json(body) == [status |-> 200, body |-> body]

\* the response FastAPI makes of a raised HTTPException
HttpError(st, d) == [status |-> st, body |-> [detail |-> d]]

\* no response yet
Pending == [status |-> -1, body |-> [detail |-> "pending"]]

\* str(e): starlette prints an HTTPException as "<status>: <detail>"
StrExc(e) ==
    IF e.exc = "HTTPException" THEN ToString(e.status) \o ": " \o e.detail ELSE e.detail

\* what a handler did: its response and its steps
Handled(r, l) == [resp |-> r, log |-> l]

RECURSIVE Flatten(_)
\* the sequences of ss, one after the other
Flatten(ss) == IF ss = <<>> THEN <<>> ELSE Head(ss) \o Flatten(Tail(ss))

(***************************************************************************)
(* POST /predict                                                           *)
(***************************************************************************)
\* int(a) of an array a of several elements raises TypeError; the text is
\* that of numpy from 1.16 on
ScalarOfArray == "only size-1 arrays can be converted to Python scalars"

\* a response that carries the attributions of the top features only
shap_values_of_top_features(shap_values, shap_top_features) ==
    IF OneDimensional(model)
    THEN Tuple([j \in 1..Len(shap_top_features) |-> shap_values[shap_top_features[j] + 1]])
    ELSE shap_values

\* "shap_values": shap_values[0].tolist() (app.py:639, 702)
shap_values_tolist(shap_values, shap_top_features) == shap_values

\* the try block of predict (app.py:595-646).  top_features_detailed
\* (app.py:622-629) is built and never used; building it takes int(idx) of
\* every element idx of shap_top_features, which raises when idx is a row.
predict_try(features) ==
    IF Len(features) = 0
    THEN [out |-> Raise("HTTPException", 400, "Features array cannot be empty"),
          log |-> <<Step("validate", 0)>>]
    ELSE
    LET input == preprocess_features(features, FEATURE_NAMES) IN
    IF input.raised
    THEN [out |-> input, log |-> <<Step("validate", 0), Step("align", 0)>>]
    ELSE
    LET input_array == input.value IN
    IF ModelRaises(model, input_array)
    THEN [out |-> Raise("XGBoostError", 0, "cannot score the input"),
          log |-> <<Step("validate", 0), Step("align", 0), Step("score", 0)>>]
    ELSE
    LET prediction == ModelPredict(model, input_array)
        attack_info == get_attack_info(prediction)
        shap_values == ExplainerShapValues(model, input_array)
        shap_top_features == shap_top_features_tolist(model, shap_values, argsort_ties)
    IN  IF ~OneDimensional(model)
        THEN [out |-> Raise("TypeError", 0, ScalarOfArray),
              log |-> <<Step("validate", 0), Step("align", 0), Step("score", 0),
                        Step("resolve", 0), Step("explain", 0)>>]
        ELSE
        [out |-> Ok([ success |-> TRUE,
                      prediction |-> prediction,
                      attack_type |-> attack_info.attack_type,
                      is_vulnerable |-> attack_info.is_vulnerable,
                      vulnerability_status |-> attack_info.vulnerability_status,
                      top_features |-> shap_top_features,
                      shap_values |-> shap_values_tolist(shap_values, shap_top_features),
                      features_used |-> Len(features),
                      features_expected |-> MODEL_EXPECTED_FEATURES,
                      feature_names |-> FEATURE_NAMES ]),
         log |-> <<Step("validate", 0), Step("align", 0), Step("score", 0),
                   Step("resolve", 0), Step("explain", 0)>>]

\* a predict that looks at the request before it looks at the model
predict_handler_validate_first(features) ==
    IF Len(features) = 0
    THEN Handled(HttpError(400, "Features array cannot be empty"), <<Step("validate", 0)>>)
    ELSE IF ~model.loaded
         THEN Handled(HttpError(503, "ML model not available"), <<Step("validate", 0)>>)
         ELSE LET t == predict_try(features)
              IN  IF t.out.raised
                  THEN Handled(HttpError(500, "Prediction failed: " \o StrExc(t.out)), t.log)
                  ELSE Handled(Json(t.out.value), t.log)

\* a predict that runs its try block a second time when the first run failed
predict_handler_retry(features) ==
    IF ~model.loaded
    THEN Handled(HttpError(503, "ML model not available"), <<>>)
    ELSE LET t == predict_try(features)
             u == predict_try(features)
         IN  IF ~t.out.raised
             THEN Handled(Json(t.out.value), t.log)
             ELSE IF u.out.raised
                  THEN Handled(HttpError(500, "Prediction failed: " \o StrExc(u.out)),
                               t.log \o u.log)
                  ELSE Handled(Json(u.out.value), t.log \o u.log)

\* predict (app.py:589-651): `except Exception` also catches the HTTPException
\* that the try block raises itself
predict_handler(features) ==
    IF ~model.loaded
    THEN Handled(HttpError(503, "ML model not available"), <<>>)
    ELSE LET t == predict_try(features)
         IN  IF t.out.raised
             THEN Handled(HttpError(500, "Prediction failed: " \o StrExc(t.out)), t.log)
             ELSE Handled(Json(t.out.value), t.log)

(***************************************************************************)
(* POST /predict of the older copy, src/backend/data/app.py                *)
(***************************************************************************)
\* the try block of predict (data/app.py:396-422): the features are scored as
\* sent, without alignment
data_predict_try(features) ==
    IF Len(features) = 0
    THEN [out |-> Raise("HTTPException", 400, "Features array cannot be empty"),
          log |-> <<Step("validate", 0)>>]
    ELSE
    IF ModelRaises(model, features)
    THEN [out |-> Raise("XGBoostError", 0, "cannot score the input"),
          log |-> <<Step("validate", 0), Step("score", 0)>>]
    ELSE
    LET prediction == ModelPredict(model, features)
        shap_values == ExplainerShapValues(model, features)
        shap_top_features == shap_top_features_tolist(model, shap_values, argsort_ties)
    IN  [out |-> Ok([ success |-> TRUE,
                      prediction |-> prediction,
                      top_features |-> shap_top_features,
                      shap_values |-> shap_values ]),
         log |-> <<Step("validate", 0), Step("score", 0), Step("explain", 0)>>]

\* predict (data/app.py:390-426)
data_predict_handler(features) ==
    IF ~model.loaded
    THEN Handled(HttpError(503, "ML model not available"), <<>>)
    ELSE LET t == data_predict_try(features)
         IN  IF t.out.raised
             THEN Handled(HttpError(500, "Prediction failed: " \o StrExc(t.out)), t.log)
             ELSE Handled(Json(t.out.value), t.log)

(***************************************************************************)
(* POST /test-preprocessing                                                *)
(***************************************************************************)
\* test_preprocessing (app.py:750-778)
test_preprocessing_handler(features) ==
    LET input == preprocess_features(features, FEATURE_NAMES) IN
    IF input.raised
    THEN Handled(Json([ success |-> FALSE,
                        error |-> StrExc(input),
                        original_features |-> Len(features),
                        expected_features |-> MODEL_EXPECTED_FEATURES ]),
                 <<Step("align", 0)>>)
    ELSE Handled(Json([ success |-> TRUE,
                        original_features |-> Len(features),
                        expected_features |-> MODEL_EXPECTED_FEATURES,
                        preprocessed_shape |-> <<1, Len(input.value)>>,
                        preprocessed_features |-> input.value ]),
                 <<Step("align", 0)>>)

(***************************************************************************)
(* POST /upload-csv                                                        *)
(***************************************************************************)
\* pd.to_numeric(errors='coerce') and fillna(0.0) on one cell (app.py:205)
ToNumeric(cell) == IF cell.text THEN 0 ELSE cell.v

\* process_csv_data (app.py:193-217): pandas either parses the text into a
\* rectangular frame or raises, and what it raises becomes an HTTPException 400
process_csv_data(file) ==
    IF ~file.parsable
    THEN Raise("HTTPException", 400, "CSV processing error: cannot parse")
    ELSE Ok([ rows |-> [i \in 1..Len(file.cells) |->
                            Tuple([j \in 1..Len(file.cells[i]) |-> ToNumeric(file.cells[i][j])])],
              feature_names |-> file.columns,
              row_count |-> Len(file.cells),
              feature_count |-> Len(file.columns) ])

\* one turn of the loop over the rows (app.py:676-712), for the row of 0-based
\* index i: the entry appended to predictions, and the steps taken
upload_row(i, row, feature_names) ==
    LET input == preprocess_features(row, feature_names) IN
    IF input.raised
    THEN [entry |-> [row |-> i + 1, error |-> "Prediction failed: " \o StrExc(input)],
          log |-> <<Step("align", i + 1)>>]
    ELSE
    LET input_array == input.value IN
    IF ModelRaises(model, input_array)
    THEN [entry |-> [row |-> i + 1, error |-> "Prediction failed: cannot score the input"],
          log |-> <<Step("align", i + 1), Step("score", i + 1)>>]
    ELSE
    LET prediction == ModelPredict(model, input_array)
        attack_info == get_attack_info(prediction)
        shap_values == ExplainerShapValues(model, input_array)
        shap_top_features == shap_top_features_tolist(model, shap_values, argsort_ties)
    IN  [entry |-> [ row |-> i + 1,
                     prediction |-> prediction,
                     attack_type |-> attack_info.attack_type,
                     is_vulnerable |-> attack_info.is_vulnerable,
                     vulnerability_status |-> attack_info.vulnerability_status,
                     top_features |-> shap_top_features,
                     shap_values |-> shap_values_tolist(shap_values, shap_top_features),
                     features_used |-> Len(row),
                     features_expected |-> MODEL_EXPECTED_FEATURES ],
         log |-> <<Step("align", i + 1), Step("score", i + 1),
                   Step("resolve", i + 1), Step("explain", i + 1)>>]

\* a loop over the rows that gives up at the first row that fails: the rows
\* before it, then its error entry
upload_rows_until_failure(rows, feature_names) ==
    LET all == Tuple([i \in 1..Len(rows) |-> upload_row(i - 1, rows[i], feature_names)])
        bad == {i \in 1..Len(rows) : "error" \in DOMAIN all[i].entry}
        stop == IF bad = {} THEN Len(rows) ELSE CHOOSE i \in bad : \A j \in bad : i <= j
    IN  SubSeq(all, 1, stop)

\* the loop over the rows (app.py:673-712): every row, in input order
upload_rows(rows, feature_names) ==
    Tuple([i \in 1..Len(rows) |-> upload_row(i - 1, rows[i], feature_names)])

\* the try block of upload_csv (app.py:659-725)
upload_csv_try(file) ==
    IF ~EndsWith(file.filename, ".csv")
    THEN [out |-> Raise("HTTPException", 400, "File must be a CSV file"),
          log |-> <<Step("validate", 0)>>]
    ELSE
    IF ~file.decodable
    THEN [out |-> Raise("UnicodeDecodeError", 0, "invalid start byte"),
          log |-> <<Step("validate", 0), Step("read", 0)>>]
    ELSE
    LET parsed == process_csv_data(file) IN
    IF parsed.raised
    THEN [out |-> parsed,
          log |-> <<Step("validate", 0), Step("read", 0), Step("parse", 0)>>]
    ELSE
    LET csv_data == parsed.value
        done == upload_rows(csv_data.rows, csv_data.feature_names)
    IN  [out |-> Ok([ success |-> TRUE,
                      filename |-> file.filename,
                      total_rows |-> csv_data.row_count,
                      features_in_csv |-> csv_data.feature_count,
                      features_expected |-> MODEL_EXPECTED_FEATURES,
                      predictions |-> [i \in 1..Len(done) |-> done[i].entry],
                      feature_names |-> FEATURE_NAMES ]),
         log |-> <<Step("validate", 0), Step("read", 0), Step("parse", 0)>>
                 \o Flatten([i \in 1..Len(done) |-> done[i].log])]

\* upload_csv (app.py:653-729): `except Exception` also catches the
\* HTTPExceptions raised in the try block and by process_csv_data
upload_csv_handler(file) ==
    IF ~model.loaded
    THEN Handled(HttpError(503, "ML model not available"), <<>>)
    ELSE LET t == upload_csv_try(file)
         IN  IF t.out.raised
             THEN Handled(HttpError(500, "CSV processing failed: " \o StrExc(t.out)), t.log)
             ELSE Handled(Json(t.out.value), t.log)

(***************************************************************************)
(* GET /feature-names, GET /attack-types                                   *)
(***************************************************************************)
\* get_feature_names (app.py:731-738)
get_feature_names_handler ==
    Handled(Json([ success |-> TRUE,
                   feature_names |-> FEATURE_NAMES,
                   feature_count |-> MODEL_EXPECTED_FEATURES ]), <<>>)

\* get_attack_types (app.py:740-748)
get_attack_types_handler ==
    Handled(Json([ success |-> TRUE,
                   attack_types |-> ATTACK_TYPES,
                   label_mapping |-> LABEL_MAPPING,
                   total_types |-> Cardinality(DOMAIN ATTACK_TYPES) ]), <<>>)

(***************************************************************************)
(* The requests that are sent.                                             *)
(***************************************************************************)
\* a feature vector of n values: small ones; ones that 32-bit floats cannot
\* hold exactly; or ones that end in +inf
Vec(n, kind) ==
    [i \in 1..n |->
        CASE kind = "small" -> ((7 * i) % 23) - 11
          [] kind = "wide"  -> IF i % 3 = 1 THEN 16777217 + 2 * i ELSE -16777219 - 4 * i
          [] OTHER          -> IF i = n THEN Inf ELSE i]

VecKinds == {"small", "wide", "inf"}

Lengths(expected) == (0..MaxShort) \cup ((expected - 1)..(expected + MaxExtra))

FeatureVectors(expected) == {Vec(n, k) : n \in Lengths(expected), k \in VecKinds}

\* a CSV row of ncols cells: numbers and, in the second column, a cell that is
\* not a number ("text"); or numbers ending in inf ("inf")
CsvRow(ncols, kind) ==
    [j \in 1..ncols |->
        IF kind = "text"
        THEN [text |-> (j = 2), v |-> ((5 * j) % 13) - 6]
        ELSE [text |-> FALSE, v |-> IF j = ncols THEN Inf ELSE j]]

RowKinds == {"text", "inf"}

CsvFile(name, ncols, kinds) ==
    [ filename |-> name, decodable |-> TRUE, parsable |-> TRUE,
      columns |-> [j \in 1..ncols |-> "c" \o ToString(j)],
      cells |-> [i \in 1..Len(kinds) |-> CsvRow(ncols, kinds[i])] ]

\* the uploads: CSV files of 0..MaxRows rows, of two columns or of one column
\* more than the expected width; a file whose header names the first two
\* features in the other order; a file under a name that is not *.csv; bytes
\* that are not UTF-8; text that pandas cannot parse
Uploads(expected) ==
    { CsvFile("flows.csv", ncols, kinds) :
        ncols \in {2, expected + 1},
        kinds \in UNION {[1..n -> RowKinds] : n \in 0..MaxRows} }
    \cup { [CsvFile("flows.csv", 2, <<"text">>) EXCEPT !.columns = <<"Feature_2", "Feature_1">>],
           CsvFile("flows.csv.txt", 2, <<"text">>),
           [CsvFile("flows.csv", 2, <<>>) EXCEPT !.decodable = FALSE],
           [CsvFile("flows.csv", 2, <<>>) EXCEPT !.parsable = FALSE] }

\* the class ids the label resolver is asked about
ClassIds == (-2)..MaxClassId

Requests(expected) ==
    { Request(e, f, NoFile, 0) :
        e \in {"predict", "test_preprocessing"}, f \in FeatureVectors(expected) }
    \cup { Request("data_predict", Vec(n, "small"), NoFile, 0) : n \in Lengths(expected) }
    \cup { Request("upload_csv", <<>>, file, 0) : file \in Uploads(expected) }
    \cup { Request("get_attack_info", <<>>, NoFile, k) : k \in ClassIds }
    \cup { Request(e, <<>>, NoFile, 0) : e \in {"get_feature_names", "get_attack_types"} }

(***************************************************************************)
(* The accounts: signup, login and email verification.                     *)
(***************************************************************************)
\* FastAPI runs the sync endpoints on a pool of worker threads: up to
\* MaxThreads account requests are in flight at a time
MaxThreads == 2

\* at most MaxSignups accounts are created
MaxSignups == 2

Threads == 1..MaxThreads

\* character i of the string s, as a string
Char(s, i) == SubSeq(s, i, i)

LowerCase == "abcdefghijklmnopqrstuvwxyz"

UpperCase == "ABCDEFGHIJKLMNOPQRSTUVWXYZ"

Digits == "0123456789"

\* the characters of the string s
Chars(s) == {Char(s, i) : i \in 1..Len(s)}

\* str.lower on one character, for the characters it changes
LowerOf == [c \in Chars(UpperCase) |->
               Char(LowerCase, CHOOSE i \in 1..Len(UpperCase) : Char(UpperCase, i) = c)]

LowerChar(c) == IF c \in DOMAIN LowerOf THEN LowerOf[c] ELSE c

RECURSIVE Lower(_)
\* str.lower (app.py:412, 418, 461)
Lower(s) == IF s = "" THEN "" ELSE LowerChar(Char(s, 1)) \o Lower(SubSeq(s, 2, Len(s)))

Whitespace == {" ", "\t", "\n", "\r"}

RECURSIVE Strip(_)
\* str.strip (app.py:405)
Strip(s) ==
    IF s = "" THEN ""
    ELSE IF Char(s, 1) \in Whitespace THEN Strip(SubSeq(s, 2, Len(s)))
    ELSE IF Char(s, Len(s)) \in Whitespace THEN Strip(SubSeq(s, 1, Len(s) - 1))
    ELSE s

\* the character classes [a-zA-Z], [a-zA-Z0-9._%+-] and [a-zA-Z0-9.-]
Letters == Chars(LowerCase) \cup Chars(UpperCase)

LocalChars == Letters \cup Chars(Digits) \cup {".", "_", "%", "+", "-"}

DomainChars == Letters \cup Chars(Digits) \cup {".", "-"}

\* the string s matches [a-zA-Z0-9._%+-]+@[a-zA-Z0-9.-]+\.[a-zA-Z]{2,} as a whole
MatchesEmailPattern(s) ==
    LET n == Len(s)
    IN  \E a \in 2..n :
            /\ Char(s, a) = "@"
            /\ \A i \in 1..(a - 1) : Char(s, i) \in LocalChars
            /\ \E d \in (a + 2)..(n - 2) :
                  /\ Char(s, d) = "."
                  /\ \A i \in (a + 1)..(d - 1) : Char(s, i) \in DomainChars
                  /\ \A i \in (d + 1)..n : Char(s, i) \in Letters

\* validate_email (app.py:298-301): re.match anchors the start, and $ matches
\* at the end of the string and also before a newline that ends it
validate_email(email) ==
    \/ MatchesEmailPattern(email)
    \/ /\ Len(email) > 0
       /\ Char(email, Len(email)) = "\n"
       /\ MatchesEmailPattern(SubSeq(email, 1, Len(email) - 1))

\* hash_password (app.py:290-292): SHA-256 in hex; no two passwords of the
\* model share a digest
hash_password(password) == "sha256:" \o password

\* create_verification_token (app.py:294-296), for the n-th token created:
\* 32 random bytes, taken to differ from every token created before
create_verification_token(n) == "tok" \o ToString(n)

\* JSON null, and a token, as the value of verification_token
NoToken == <<>>

Token(token) == <<token>>

\* the account signup stores (app.py:418-423)
NewUser(password, verification_token) ==
    [ password_hash |-> hash_password(password),
      is_verified |-> FALSE,
      verification_token |-> Token(verification_token),
      created_at |-> "mtime" ]

\* the empty dict
NoUsers == [email \in {} |-> NewUser("", "")]

\* users[key] = user
Put(users, key, user) ==
    [email \in DOMAIN users \cup {key} |-> IF email = key THEN user ELSE users[email]]

AuthData(email, password) == [email |-> email, password |-> password, token |-> ""]

TokenData(token) == [email |-> "", password |-> "", token |-> token]

\* a request of an account endpoint, as the request handled last
AccountRequest(op, data) ==
    [endpoint |-> op, email |-> data.email, password |-> data.password, token |-> data.token]

\* a worker thread inside handler op, about to call save_users(users)
Saving(op, data, users) == [pc |-> "save", op |-> op, data |-> data, users |-> users]

\* a worker thread that handles no request
Idle == [pc |-> "idle", op |-> "", data |-> AuthData("", ""), users |-> NoUsers]

\* data/users.json does not exist, no token was created, no request is in flight
NoAccounts ==
    /\ users_file = NoUsers
    /\ issued = 0
    /\ calls = [t \in Threads |-> Idle]
    /\ verified_with = {}
    /\ signed_up = {}

\* load_users (app.py:247-255) and save_users (app.py:281-288) without MongoDB:
\* the whole dict is read from, and written to, data/users.json.  Each is taken
\* as one step.
load_users == users_file

save_users(users) == users_file' = users

\* a signup that looks the email up, and stores the account, as it was typed
signup_try_as_typed(data, users, verification_token) ==
    IF ~validate_email(data.email)
    THEN Raise("HTTPException", 400, "Please enter a valid email address")
    ELSE IF Len(Strip(data.password)) < 6
    THEN Raise("HTTPException", 400, "Password must be at least 6 characters long")
    ELSE IF data.email \in DOMAIN users
    THEN Raise("HTTPException", 409, "Email already registered")
    ELSE Ok(Put(users, data.email, NewUser(data.password, verification_token)))

\* signup up to save_users (app.py:397-423): the dict to save, or what is raised
signup_try(data, users, verification_token) ==
    IF ~validate_email(data.email)
    THEN Raise("HTTPException", 400, "Please enter a valid email address")
    ELSE IF Len(Strip(data.password)) < 6
    THEN Raise("HTTPException", 400, "Password must be at least 6 characters long")
    ELSE IF Lower(data.email) \in DOMAIN users
    THEN Raise("HTTPException", 409, "Email already registered")
    ELSE Ok(Put(users, Lower(data.email), NewUser(data.password, verification_token)))

\* the response of signup after save_users (app.py:429-441)
signup_response(email_sent) ==
    Json([ success |-> TRUE,
           message |-> IF email_sent
                       THEN "Signup successful. Please check your email to verify your account."
                       ELSE "Signup successful. Email verification failed - please contact support." ])

\* a login that looks at the verification flag before it looks at the password
login_handler_flag_first(data, users) ==
    IF ~validate_email(data.email)
    THEN HttpError(400, "Please enter a valid email address")
    ELSE IF Lower(data.email) \notin DOMAIN users
    THEN HttpError(401, "Invalid email or password")
    ELSE IF ~users[Lower(data.email)].is_verified
    THEN HttpError(403, "Please verify your email before logging in.")
    ELSE IF users[Lower(data.email)].password_hash # hash_password(data.password)
    THEN HttpError(401, "Invalid email or password")
    ELSE Json([success |-> TRUE, message |-> "Login successful", email |-> data.email])

\* login (app.py:449-489), on the dict that load_users returned
login_handler(data, users) ==
    IF ~validate_email(data.email)
    THEN HttpError(400, "Please enter a valid email address")
    ELSE IF Lower(data.email) \notin DOMAIN users
    THEN HttpError(401, "Invalid email or password")
    ELSE IF users[Lower(data.email)].password_hash # hash_password(data.password)
    THEN HttpError(401, "Invalid email or password")
    ELSE IF ~users[Lower(data.email)].is_verified
    THEN HttpError(403, "Please verify your email before logging in.")
    ELSE Json([success |-> TRUE, message |-> "Login successful", email |-> data.email])

\* a verify that marks the account verified and leaves it its token
verify_try_keeping_token(token, users) ==
    LET found == {email \in DOMAIN users : users[email].verification_token = Token(token)}
        email == CHOOSE e \in found : TRUE
    IN  IF found = {}
        THEN [outcome |-> "invalid", users |-> users]
        ELSE IF users[email].is_verified
        THEN [outcome |-> "already", users |-> users]
        ELSE [outcome |-> "verified", users |-> [users EXCEPT ![email].is_verified = TRUE]]

\* the loop of api_verify and verify_email over the accounts (app.py:500-511,
\* 537-553): no account has the token; the account that has it is verified
\* already; or the dict to save, the account marked verified and its token null
verify_try(token, users) ==
    LET found == {email \in DOMAIN users : users[email].verification_token = Token(token)}
        email == CHOOSE e \in found : TRUE
    IN  IF found = {}
        THEN [outcome |-> "invalid", users |-> users]
        ELSE IF users[email].is_verified
        THEN [outcome |-> "already", users |-> users]
        ELSE [outcome |-> "verified",
              users |-> [users EXCEPT ![email].is_verified = TRUE,
                                      ![email].verification_token = NoToken]]

\* a page of verify_email: HTMLResponse, status 200
Html(title) == [status |-> 200, body |-> [html |-> title]]

\* what api_verify (app.py:503-520) and verify_email (app.py:540-575) answer
verify_response(op, outcome) ==
    IF op = "api_verify"
    THEN CASE outcome = "invalid"  -> HttpError(400, "Invalid or expired verification link.")
           [] outcome = "already"  -> Json([success |-> TRUE, message |-> "Email already verified."])
           [] outcome = "verified" ->
                Json([ success |-> TRUE,
                       message |-> "Email verified successfully! You can now log in." ])
    ELSE CASE outcome = "invalid"  -> Html("Invalid Verification Link")
           [] outcome = "already"  -> Html("Email Already Verified")
           [] outcome = "verified" -> Html("Email Verified Successfully!")

\* the emails, passwords and tokens that clients send
AuthEmails == {"Ann@X.io", "ann@x.io", "bob@x.io", "ann.x.io"}

SignupRequests == {AuthData(email, password) : email \in AuthEmails, password \in {"hunter22", " 1234 "}}

LoginRequests == {AuthData(email, password) : email \in AuthEmails, password \in {"hunter22", "hunter23"}}

TokenRequests == {TokenData(create_verification_token(n)) : n \in 1..MaxSignups} \cup {TokenData("")}

\* thread t is free to take a request
Free(t) == calls[t].pc = "idle"

\* the handler on thread t returns: the response goes out, the thread is free
Return(t, op, data, response) ==
    /\ req' = AccountRequest(op, data)
    /\ resp' = response
    /\ calls' = [calls EXCEPT ![t] = Idle]

\* POST /signup, up to save_users
signup(t) ==
    /\ Free(t)
    /\ \E data \in SignupRequests :
          LET users == signup_try(data, load_users, create_verification_token(issued + 1))
          IN  IF users.raised
              THEN /\ Return(t, "signup", data, HttpError(users.status, users.detail))
                   /\ UNCHANGED issued
              ELSE /\ issued < MaxSignups
                   /\ issued' = issued + 1
                   /\ calls' = [calls EXCEPT ![t] = Saving("signup", data, users.value)]
                   /\ UNCHANGED <<req, resp>>
    /\ UNCHANGED <<shared, argsort_ties, log, earlier, users_file, verified_with, signed_up>>

\* POST /signup, from save_users on: the dict is written, the email is sent or not
signup_finish(t) ==
    /\ calls[t].pc = "save"
    /\ calls[t].op = "signup"
    /\ save_users(calls[t].users)
    /\ \E email_sent \in BOOLEAN :
          Return(t, "signup", calls[t].data, signup_response(email_sent))
    /\ signed_up' = signed_up \cup {Lower(calls[t].data.email)}
    /\ UNCHANGED <<shared, argsort_ties, log, earlier, issued, verified_with>>

\* POST /login
login(t) ==
    /\ Free(t)
    /\ \E data \in LoginRequests :
          Return(t, "login", data, login_handler(data, load_users))
    /\ UNCHANGED <<shared, argsort_ties, log, earlier, users_file, issued, verified_with, signed_up>>

\* POST /verify (op = "api_verify") and GET /verify-email (op = "verify_email"),
\* up to save_users
Verify(t, op) ==
    /\ Free(t)
    /\ \E data \in TokenRequests :
          LET found == verify_try(data.token, load_users)
          IN  IF found.outcome = "verified"
              THEN /\ calls' = [calls EXCEPT ![t] = Saving(op, data, found.users)]
                   /\ UNCHANGED <<req, resp>>
              ELSE Return(t, op, data, verify_response(op, found.outcome))
    /\ UNCHANGED <<shared, argsort_ties, log, earlier, users_file, issued, verified_with, signed_up>>

api_verify(t) == Verify(t, "api_verify")

verify_email(t) == Verify(t, "verify_email")

\* POST /verify and GET /verify-email, from save_users on
verify_finish(t) ==
    /\ calls[t].pc = "save"
    /\ calls[t].op \in {"api_verify", "verify_email"}
    /\ save_users(calls[t].users)
    /\ Return(t, calls[t].op, calls[t].data, verify_response(calls[t].op, "verified"))
    /\ verified_with' = verified_with \cup {calls[t].data.token}
    /\ UNCHANGED <<shared, argsort_ties, log, earlier, issued, signed_up>>

(***************************************************************************)
(* The state machine.  A request arrives (send) and its handler runs, as   *)
(* one step, to the response.  The prediction handlers share nothing that  *)
(* they write, so requests are taken one at a time.                        *)
(***************************************************************************)
\* the module-level code has run, and no request has arrived
Startup ==
    /\ model \in Models \cup {None}
    /\ MODEL_EXPECTED_FEATURES = 78
    /\ \E file \in LabelFiles :
          /\ LABEL_MAPPING = LoadLabelMapping(file)
          /\ ATTACK_TYPES = ReverseMapping(LoadLabelMapping(file))
    /\ \E file \in FeatureFiles(78) : FEATURE_NAMES = LoadFeatureNames(file, 78)
    /\ argsort_ties \in TieOrders
    /\ req = Request("startup", <<>>, NoFile, 0)
    /\ resp = [status |-> 0, body |-> [detail |-> "started"]]
    /\ log = <<>>
    /\ earlier = <<>>

Init ==
    /\ Startup
    /\ NoAccounts

\* a client sends one of the requests
Send(requests) ==
    /\ resp # Pending
    /\ \E r \in requests : req' = r
    /\ resp' = Pending
    /\ log' = <<>>
    /\ UNCHANGED <<shared, argsort_ties, earlier, accounts>>

send == Send(Requests(MODEL_EXPECTED_FEATURES))

\* a handler that keeps what it has seen: it drops the name of the first
\* feature from the shared list
Respond_and_learn(e, h) ==
    /\ resp = Pending
    /\ req.endpoint = e
    /\ resp' = h.resp
    /\ log' = h.log
    /\ FEATURE_NAMES' = IF e = "predict" THEN Tail(FEATURE_NAMES) ELSE FEATURE_NAMES
    /\ UNCHANGED <<model, LABEL_MAPPING, ATTACK_TYPES, MODEL_EXPECTED_FEATURES,
                   argsort_ties, req, earlier, accounts>>

\* the handler of endpoint e answers the request in flight
Respond(e, h) ==
    /\ resp = Pending
    /\ req.endpoint = e
    /\ resp' = h.resp
    /\ log' = h.log
    /\ UNCHANGED <<shared, argsort_ties, req, earlier, accounts>>

predict == Respond("predict", predict_handler(req.features))

data_predict == Respond("data_predict", data_predict_handler(req.features))

test_preprocessing == Respond("test_preprocessing", test_preprocessing_handler(req.features))

upload_csv == Respond("upload_csv", upload_csv_handler(req.file))

get_feature_names == Respond("get_feature_names", get_feature_names_handler)

get_attack_types == Respond("get_attack_types", get_attack_types_handler)

\* a call of the label resolver with the class id of the request
resolve ==
    Respond("get_attack_info",
            Handled(Json(get_attack_info(req.prediction)), <<Step("resolve", 0)>>))

Next ==
    \/ send
    \/ predict
    \/ data_predict
    \/ test_preprocessing
    \/ upload_csv
    \/ get_feature_names
    \/ get_attack_types
    \/ resolve

Spec == Init /\ [][Next]_vars

(***************************************************************************)
(* A client that repeats itself: it keeps one response, sends further      *)
(* requests, and compares.                                                 *)
(***************************************************************************)
\* the requests of the repeating client: of every endpoint a few
RepeatedRequests(expected) ==
    { Request("predict", Vec(n, k), NoFile, 0) :
        n \in {MaxShort, expected + MaxExtra}, k \in VecKinds }
    \cup { Request("predict", <<>>, NoFile, 0),
           Request("test_preprocessing", Vec(MaxShort, "wide"), NoFile, 0),
           Request("data_predict", Vec(expected, "small"), NoFile, 0),
           Request("data_predict", Vec(MaxShort, "small"), NoFile, 0),
           Request("upload_csv", <<>>, CsvFile("flows.csv", 2, [i \in 1..MaxRows |-> "text"]), 0),
           Request("upload_csv", <<>>, CsvFile("flows.csv", 2, <<"inf">>), 0),
           Request("upload_csv", <<>>, CsvFile("flows.csv.txt", 2, <<"text">>), 0),
           Request("get_attack_info", <<>>, NoFile, 0),
           Request("get_attack_info", <<>>, NoFile, MaxClassId),
           Request("get_feature_names", <<>>, NoFile, 0),
           Request("get_attack_types", <<>>, NoFile, 0) }

send_again == Send(RepeatedRequests(MODEL_EXPECTED_FEATURES))

\* the client keeps the request and the response it has just received
keep ==
    /\ resp # Pending
    /\ req.endpoint # "startup"
    /\ earlier = <<>>
    /\ earlier' = <<[req |-> req, resp |-> resp]>>
    /\ UNCHANGED <<shared, argsort_ties, req, resp, log, accounts>>

RepeatNext ==
    \/ send_again
    \/ keep
    \/ predict
    \/ data_predict
    \/ test_preprocessing
    \/ upload_csv
    \/ get_feature_names
    \/ get_attack_types
    \/ resolve

SpecRepeat == Init /\ [][RepeatNext]_vars

(***************************************************************************)
(* The account endpoints, on a server whose prediction endpoints are left  *)
(* alone: any number of worker threads handle signup, login and verify     *)
(* requests, a handler that saves taking two steps.                        *)
(***************************************************************************)
AccountsInit ==
    /\ Init
    /\ ~model.loaded
    /\ argsort_ties = 1
    /\ LABEL_MAPPING = DefaultLabels
    /\ FEATURE_NAMES = LoadFeatureNames([present |-> FALSE, names |-> <<>>], 78)

AccountsNext ==
    \E t \in Threads :
        \/ signup(t)
        \/ signup_finish(t)
        \/ login(t)
        \/ api_verify(t)
        \/ verify_email(t)
        \/ verify_finish(t)

SpecAccounts == AccountsInit /\ [][AccountsNext]_vars

\* no account request is in flight
InTurn == \A t \in Threads : Free(t)

\* the same endpoints when the requests come one after the other: a request is
\* taken only when the one before it has been answered
AccountsInTurnNext ==
    \E t \in Threads :
        \/ InTurn /\ signup(t)
        \/ signup_finish(t)
        \/ InTurn /\ login(t)
        \/ InTurn /\ api_verify(t)
        \/ InTurn /\ verify_email(t)
        \/ verify_finish(t)

SpecAccountsInTurn == AccountsInit /\ [][AccountsInTurnNext]_vars

(***************************************************************************)
(* The claims.                                                             *)
(***************************************************************************)
\* the request in flight has been answered by endpoint e
Answered(e) == req.endpoint = e /\ resp # Pending

\* C1, as claimed: for a non-empty v, preprocess_features returns exactly 78
\* values: v itself, the first 78 elements of v, or v followed by zeros.
C1_AlignedIsInputItself ==
    (Answered("test_preprocessing") /\ req.features # <<>>) =>
        /\ resp.body.success
        /\ Len(resp.body.preprocessed_features) = 78
        /\ \A i \in 1..78 :
              resp.body.preprocessed_features[i] =
                  IF i <= Len(req.features) THEN req.features[i] ELSE 0

\* C1, amended: for a non-empty v, preprocess_features returns exactly 78
\* values, element i being v[i] converted to a 32-bit float for every i up to
\* len(v), and 0 for every i beyond it.
C1_AlignedIsFloat32OfInput ==
    (Answered("test_preprocessing") /\ req.features # <<>>) =>
        /\ resp.body.success
        /\ resp.body.preprocessed_shape = <<1, 78>>
        /\ Len(resp.body.preprocessed_features) = 78
        /\ \A i \in 1..78 :
              resp.body.preprocessed_features[i] =
                  IF i <= Len(req.features) THEN Float32(req.features[i]) ELSE 0

\* a vector longer than 78 has been truncated, and its first value, which no
\* 32-bit float holds, has been rounded
C1_Witness ==
    /\ Answered("test_preprocessing")
    /\ Len(req.features) > 78
    /\ req.features[1] = 16777219
    /\ resp.body.preprocessed_features[1] = 16777220
    /\ Len(resp.body.preprocessed_features) = 78

\* C2: preprocess_features fails on the empty vector, also when reached
\* through /test-preprocessing: no aligned vector is returned.
C2_EmptyInputIsRejected ==
    (Answered("test_preprocessing") /\ req.features = <<>>) =>
        /\ ~resp.body.success
        /\ "preprocessed_features" \notin DOMAIN resp.body

\* the steps of alignment, scoring and attribution
InferenceSteps == {"align", "score", "explain"}

\* C3: with a model loaded, /predict with an empty features list is answered
\* with status 400, and nothing is aligned, scored or explained for it.
C3_EmptyPredictIs400 ==
    \A e \in {"predict", "data_predict"} :
        (Answered(e) /\ model.loaded /\ req.features = <<>>) =>
            /\ resp.status = 400
            /\ \A i \in 1..Len(log) : log[i].step \notin InferenceSteps

\* C4: with no model loaded, every /predict and /upload-csv request is answered
\* with status 503, before any step of validation, reading, parsing, alignment
\* or scoring.
C4_NoModelIs503 ==
    \A e \in {"predict", "data_predict", "upload_csv"} :
        (Answered(e) /\ ~model.loaded) =>
            /\ resp.status = 503
            /\ log = <<>>

\* without a model, an upload that is not even a CSV file has been answered 503
C4_Witness ==
    /\ Answered("upload_csv")
    /\ ~model.loaded
    /\ ~EndsWith(req.file.filename, ".csv")
    /\ resp.status = 503

\* the value pandas makes of cell j of row i of the uploaded file
CellValue(i, j) == IF req.file.cells[i][j].text THEN 0 ELSE req.file.cells[i][j].v

\* row i of the uploaded file cannot be scored: one of the cells that are kept
\* by the alignment is not finite
RowFails(i) ==
    \E j \in 1..Len(req.file.cells[i]) : j <= 78 /\ CellValue(i, j) = Inf

\* C5: for a parsed CSV of n rows, /upload-csv returns n entries in input
\* order, entry i having row = i; a row that fails yields an entry of row and
\* error only; every row is processed whatever happened to the rows before
\* it, and its entry is the one it gets as the only row of a batch.
C5_EveryRowHasItsEntry ==
    (Answered("upload_csv") /\ resp.status = 200) =>
        LET n == Len(req.file.cells)
            predictions == resp.body.predictions
            rows == [i \in 1..n |-> [j \in 1..Len(req.file.cells[i]) |-> CellValue(i, j)]]
        IN  /\ Len(predictions) = n
            /\ \A i \in 1..n :
                  /\ predictions[i].row = i
                  /\ RowFails(i) <=> DOMAIN predictions[i] = {"row", "error"}
                  /\ ~RowFails(i) =>
                        /\ "error" \notin DOMAIN predictions[i]
                        /\ predictions[i].features_used = Len(rows[i])
                  /\ predictions[i] =
                        [upload_row(0, rows[i], req.file.columns).entry EXCEPT !.row = i]
            /\ SelectSeq(log, LAMBDA s : s.step = "align") =
                  [i \in 1..n |-> Step("align", i)]

\* a batch of three rows of which the second failed: three entries, the first
\* and the third with a prediction, the second with row and error only
C5_Witness ==
    /\ Answered("upload_csv")
    /\ resp.status = 200
    /\ Len(req.file.cells) = 3
    /\ Len(resp.body.predictions) = 3
    /\ "prediction" \in DOMAIN resp.body.predictions[1]
    /\ resp.body.predictions[2] = [row |-> 2, error |-> "Prediction failed: cannot score the input"]
    /\ "prediction" \in DOMAIN resp.body.predictions[3]

\* C6: with a model loaded, an upload whose name does not end in .csv, or whose
\* content cannot be parsed into rows, is answered with status 400.
C6_BadUploadIs400 ==
    (/\ Answered("upload_csv")
     /\ model.loaded
     /\ ~EndsWith(req.file.filename, ".csv") \/ ~req.file.parsable) =>
        resp.status = 400

\* the successful predictions of the response: of /predict the response itself,
\* of /upload-csv the entries of the rows that did not fail
Predictions ==
    IF Answered("predict") /\ resp.status = 200
    THEN {resp.body}
    ELSE IF Answered("upload_csv") /\ resp.status = 200
         THEN {resp.body.predictions[i] : i \in
                  {k \in 1..Len(resp.body.predictions) :
                      "error" \notin DOMAIN resp.body.predictions[k]}}
         ELSE {}

\* the magnitude of the attribution of the feature of 0-based index k
Magnitude(attributions, k) == Abs(attributions[k + 1])

\* the lists of a prediction hold numbers, one attribution per feature and
\* feature indices: the explainer returned an array of one dimension
FlatLists == OneDimensional(model)

\* top holds the 5 features of the largest magnitudes, the larger first
RankedByMagnitude(top, attributions) ==
    /\ FlatLists
    /\ Len(top) = 5
    /\ \A j \in 1..5 : top[j] \in 0..(Len(attributions) - 1)
    /\ \A j, k \in 1..5 : j # k => top[j] # top[k]
    /\ \A j \in 1..4 : Magnitude(attributions, top[j]) >= Magnitude(attributions, top[j + 1])
    /\ \A k \in 0..(Len(attributions) - 1) :
          k \notin Range(top) => Magnitude(attributions, k) <= Magnitude(attributions, top[5])

\* among features of equal magnitude, the lower index comes first
TiesByLowerIndex(top, attributions) ==
    /\ \A j \in 1..4 :
          Magnitude(attributions, top[j]) = Magnitude(attributions, top[j + 1])
              => top[j] < top[j + 1]
    /\ \A k \in 0..(Len(attributions) - 1) :
          (k \notin Range(top) /\ Magnitude(attributions, k) = Magnitude(attributions, top[5]))
              => top[5] < k

\* the example of the specification, in hundredths: the attributions
\* [0.1, -0.9, 0.3, 0.05, 0.2, 0.0] rank, for top_k = 3, as [1, 2, 4]
RankingExample == Prefix(TopFeatures(<<10, -90, 30, 5, 20, 0>>, argsort_ties), 3) = <<1, 2, 4>>

\* C7, as claimed: top_features are the feature indices by descending absolute
\* attribution, equal absolute values by lower index first, cut to 5.
C7_TopFeaturesTiesByLowerIndex ==
    /\ RankingExample
    /\ \A p \in Predictions :
          /\ RankedByMagnitude(p.top_features, p.shap_values)
          /\ TiesByLowerIndex(p.top_features, p.shap_values)

\* the attributions of the features of the aligned request
Attributions == ShapValues(model, preprocess_features(req.features, FEATURE_NAMES).value)

\* C8, as claimed: shap_values of a /predict response holds the attributions
\* of the top features only, in the order of top_features.
C8_ShapValuesOfTopFeaturesOnly ==
    (Answered("predict") /\ resp.status = 200) =>
        /\ Len(resp.body.shap_values) = Len(resp.body.top_features)
        /\ \A j \in 1..Len(resp.body.top_features) :
              resp.body.shap_values[j] = Attributions[resp.body.top_features[j] + 1]

\* C8, amended: shap_values of a /predict response holds the attributions of
\* all 78 features, in the order of the features: the attribution of the top
\* feature top_features[j] is shap_values[top_features[j]].
C8_ShapValuesOfEveryFeature ==
    (Answered("predict") /\ resp.status = 200) =>
        /\ Len(resp.body.shap_values) = 78
        /\ \A k \in 1..78 : resp.body.shap_values[k] = Attributions[k]
        /\ \A j \in 1..Len(resp.body.top_features) :
              resp.body.top_features[j] + 1 \in 1..Len(resp.body.shap_values)

\* a successful prediction: 5 top features, 78 attributions
C8_Witness ==
    /\ Answered("predict")
    /\ resp.status = 200
    /\ Len(resp.body.top_features) = 5
    /\ Len(resp.body.shap_values) = 78
    /\ resp.body.shap_values[1] # resp.body.shap_values[resp.body.top_features[1] + 1]

\* C9: get_attack_info(k) reports is_vulnerable = false exactly when k = 0,
\* whether or not k is in the label mapping; so do the predictions.
C9_VulnerableIffNotZero ==
    /\ Answered("get_attack_info") => (resp.body.is_vulnerable <=> req.prediction # 0)
    /\ \A p \in Predictions : p.is_vulnerable <=> p.prediction # 0

\* class 0 is not in the label mapping, and is reported as not vulnerable
C9_Witness ==
    /\ Answered("get_attack_info")
    /\ req.prediction = 0
    /\ 0 \notin DOMAIN ATTACK_TYPES
    /\ ~resp.body.is_vulnerable

\* C10: for an id that is no key of the reverse mapping, get_attack_info
\* returns a placeholder that contains the id in decimal; for an id that is a
\* key, the name mapped to it.
C10_UnknownNameEmbedsId ==
    Answered("get_attack_info") =>
        /\ resp.status = 200
        /\ IF \E i \in 1..Len(LABEL_MAPPING) : LABEL_MAPPING[i][2] = req.prediction
           THEN /\ resp.body.attack_type = ATTACK_TYPES[req.prediction]
                /\ <<resp.body.attack_type, req.prediction>> \in Range(LABEL_MAPPING)
           ELSE Contains(resp.body.attack_type, ToString(req.prediction))

\* the negative id -2 is in no mapping, and its name is "Unknown (-2)"
C10_Witness ==
    /\ Answered("get_attack_info")
    /\ req.prediction = -2
    /\ resp.body.attack_type = "Unknown (-2)"

\* the client has kept the response to a request of endpoint e, and the same
\* request has been answered again
Repeated(e) ==
    /\ Len(earlier) = 1
    /\ earlier[1].req.endpoint = e
    /\ Answered(e)
    /\ req = earlier[1].req

C12_EveryResponseHasSuccess ==
    \A e \in {"predict", "upload_csv"} :
        Answered(e) => "success" \in DOMAIN resp.body

\* the features of the request as the model is to see them: 78 values, those
\* sent as 32-bit floats, then zeros
AlignedRequest ==
    [i \in 1..78 |-> IF i <= Len(req.features) THEN Float32(req.features[i]) ELSE 0]

\* C13: with a model loaded, /predict on a non-empty vector of n values that
\* the model can score answers with success = true, features_used = n and
\* features_expected = 78, and the prediction is that of the model on the
\* aligned vector of 78 values.
C13_PredictScoresTheAlignedVector ==
    (/\ Answered("predict")
     /\ model.loaded
     /\ req.features # <<>>
     /\ ~ModelRaises(model, AlignedRequest)) =>
        /\ resp.status = 200
        /\ resp.body.success
        /\ resp.body.features_used = Len(req.features)
        /\ resp.body.features_expected = 78
        /\ resp.body.prediction = ModelPredict(model, AlignedRequest)
        /\ Len(resp.body.shap_values) = 78
        /\ SelectSeq(log, LAMBDA s : s.step \in {"align", "score"}) =
              <<Step("align", 0), Step("score", 0)>>

\* C14: after startup, whatever data/feature_names.json holds (nothing, fewer,
\* as many or more names than expected), FEATURE_NAMES has exactly
\* MODEL_EXPECTED_FEATURES names, and MODEL_EXPECTED_FEATURES is 78.
C14_FeatureNamesHaveExpectedLength ==
    /\ MODEL_EXPECTED_FEATURES = 78
    /\ Len(FEATURE_NAMES) = MODEL_EXPECTED_FEATURES
    /\ Answered("get_feature_names") =>
          Len(resp.body.feature_names) = resp.body.feature_count

\* the endpoints that read the shared state
Endpoints ==
    {"predict", "data_predict", "test_preprocessing", "upload_csv",
     "get_feature_names", "get_attack_types", "get_attack_info"}

\* a request that is answered a second time gets the response it got before
SameOutcomeAsEarlier == \A e \in Endpoints : Repeated(e) => resp = earlier[1].resp

\* C15: the model, LABEL_MAPPING, ATTACK_TYPES, FEATURE_NAMES and
\* MODEL_EXPECTED_FEATURES are as startup left them after every step of every
\* handler, under any sequence of requests; and so a request gets the same
\* response whatever requests were handled before it.
C15_HandlersLeaveSharedState ==
    [][UNCHANGED shared /\ SameOutcomeAsEarlier']_vars

\* the response to an upload has been kept, and the same file has been
\* uploaded and answered again
C15_Witness ==
    /\ Repeated("upload_csv")
    /\ resp.status = 200
    /\ Len(resp.body.predictions) = MaxRows

\* how often the handler performed step `name` for row `row`
Attempts(name, row) == Cardinality({i \in 1..Len(log) : log[i] = Step(name, row)})

\* C16: within one /upload-csv request each row is aligned once and scored at
\* most once, a row that failed being scored exactly once and not explained;
\* a /predict request is aligned, scored and explained at most once, also when
\* its inference fails.
C16_NoRetry ==
    /\ (Answered("upload_csv") /\ resp.status = 200) =>
          \A i \in 1..Len(req.file.cells) :
              /\ Attempts("align", i) = 1
              /\ Attempts("score", i) = 1
              /\ Attempts("explain", i) =
                    IF "error" \in DOMAIN resp.body.predictions[i] THEN 0 ELSE 1
    /\ \A e \in {"predict", "data_predict"} :
          Answered(e) =>
              /\ Attempts("align", 0) <= 1
              /\ Attempts("score", 0) <= 1
              /\ Attempts("explain", 0) <= 1

\* the second row of a batch failed in its one scoring attempt, and the row
\* after it was scored
C16_Witness ==
    /\ Answered("upload_csv")
    /\ resp.status = 200
    /\ Len(resp.body.predictions) = 3
    /\ "error" \in DOMAIN resp.body.predictions[2]
    /\ Attempts("score", 2) = 1
    /\ Attempts("explain", 2) = 0
    /\ Attempts("score", 3) = 1

\* row i of the uploaded file as the model is to see it when alignment goes by
\* position: 78 values, cell j of the row in place j
AlignedRow(i) ==
    [j \in 1..78 |-> IF j <= Len(req.file.cells[i]) THEN Float32(CellValue(i, j)) ELSE 0]

\* C17: alignment goes by position and not by name: preprocess_features gives
\* the same vector for any list of names, element j of it coming from element
\* j of the input; so the rows of a CSV are scored by the position of their
\* cells whatever the header says.
C17_AlignmentIsPositional ==
    /\ Answered("test_preprocessing") =>
          \A names \in {<<>>, FEATURE_NAMES, Reversed(FEATURE_NAMES)} :
              /\ preprocess_features(req.features, names).value =
                    resp.body.preprocessed_features
              /\ resp.body.preprocessed_features = AlignedRequest
    /\ (Answered("upload_csv") /\ resp.status = 200) =>
          \A i \in 1..Len(req.file.cells) :
              "error" \notin DOMAIN resp.body.predictions[i] =>
                  /\ resp.body.predictions[i].prediction = ModelPredict(model, AlignedRow(i))
                  /\ resp.body.predictions[i].shap_values = ExplainerShapValues(model, AlignedRow(i))

\* a CSV whose header names the second feature first was scored with its first
\* cell as the first feature
C17_Witness ==
    /\ Answered("upload_csv")
    /\ resp.status = 200
    /\ req.file.columns = <<"Feature_2", "Feature_1">>
    /\ FEATURE_NAMES[1] = "Feature_1"
    /\ FEATURE_NAMES[2] = "Feature_2"
    /\ CellValue(1, 1) # CellValue(1, 2)
    /\ resp.body.predictions[1].prediction = ModelPredict(model, AlignedRow(1))

\* some account of the store has the token
Matches(users, token) ==
    \E email \in DOMAIN users : users[email].verification_token = Token(token)

\* thread t takes a verify request and finds an account to verify
VerifyFinds(t) ==
    /\ calls[t].pc = "idle"
    /\ calls'[t].pc = "save"
    /\ calls'[t].op \in {"api_verify", "verify_email"}

\* C18: a verification token is single-use: once a verify request has
\* succeeded with a token, the token matches no account of the store, and a
\* verify request that arrives later with it finds nothing to verify.
C18_TokenIsSingleUse ==
    [][/\ \A token \in verified_with' : ~Matches(users_file', token)
       /\ \A t \in Threads : VerifyFinds(t) => calls'[t].data.token \notin verified_with]_vars

\* a login request has just been answered
LoginAnswered ==
    /\ req'.endpoint = "login"
    /\ <<req', resp'>> # <<req, resp>>

\* the account the store holds for the email of the login just answered
HasAccount == Lower(req'.email) \in DOMAIN users_file

PasswordMatches ==
    /\ HasAccount
    /\ users_file[Lower(req'.email)].password_hash = hash_password(req'.password)

\* C19, as claimed: login succeeds only for an account under the lower-cased
\* email whose password hash matches and which is verified; otherwise it
\* answers 401 when there is no account or the password does not match, 403
\* when the password matches and the account is unverified; and it never
\* changes the store.
C19_LoginIs200Or401Or403 ==
    [][LoginAnswered =>
          /\ users_file' = users_file
          /\ resp'.status = 200 <=> (PasswordMatches /\ users_file[Lower(req'.email)].is_verified)
          /\ resp'.status = 401 <=> (~HasAccount \/ ~PasswordMatches)
          /\ resp'.status = 403 <=> (PasswordMatches /\ ~users_file[Lower(req'.email)].is_verified)]_vars

\* C19, amended: login answers 400 for an email that fails the format check;
\* for a well-formed email it succeeds only for an account under the
\* lower-cased email whose password hash matches and which is verified,
\* answers 401 when there is no account or the password does not match, 403
\* when the password matches and the account is unverified; and it never
\* changes the store.
C19_LoginIs200Or400Or401Or403 ==
    [][LoginAnswered =>
          /\ users_file' = users_file
          /\ resp'.status \in {200, 400, 401, 403}
          /\ resp'.status = 400 <=> ~validate_email(req'.email)
          /\ resp'.status = 200 <=> (PasswordMatches /\ users_file[Lower(req'.email)].is_verified)
          /\ resp'.status = 401 <=>
                (validate_email(req'.email) /\ (~HasAccount \/ ~PasswordMatches))
          /\ resp'.status = 403 <=> (PasswordMatches /\ ~users_file[Lower(req'.email)].is_verified)]_vars

\* a login as Ann@X.io has succeeded, on the verified account ann@x.io
C19_Witness ==
    /\ req.endpoint = "login"
    /\ req.email = "Ann@X.io"
    /\ resp.status = 200
    /\ "ann@x.io" \in DOMAIN users_file
    /\ users_file["ann@x.io"].is_verified
    /\ users_file["ann@x.io"].password_hash = hash_password(req.password)

\* C20: with signup and verify requests interleaved, an account that the store
\* holds as verified is in the store, and verified, after every later write.
C20_VerifiedStaysVerified ==
    [][\A email \in DOMAIN users_file :
          users_file[email].is_verified =>
              /\ email \in DOMAIN users_file'
              /\ users_file'[email].is_verified]_vars

\* C21: no signup is lost: when signup requests for distinct emails have run
\* concurrently (no verify request has written the store) and all of them have
\* completed, the store holds an account for every email whose signup answered
\* success.
C21_NoSignupIsLost ==
    (InTurn /\ verified_with = {}) => signed_up \subseteq DOMAIN users_file

\* a signup request has just been answered with an error
SignupRejected ==
    /\ req'.endpoint = "signup"
    /\ <<req', resp'>> # <<req, resp>>
    /\ resp'.status # 200

\* thread t takes a signup request and goes on to save_users
SignupAccepted(t) ==
    /\ calls[t].pc = "idle"
    /\ calls'[t].pc = "save"
    /\ calls'[t].op = "signup"

\* the email fails the format check, or the trimmed password is too short
BadSignup(email, password) == ~validate_email(email) \/ Len(Strip(password)) < 6

\* C22: a rejected signup leaves the store as it was.  Signup answers 400 for
\* an email that fails the format check or a password of fewer than 6
\* characters after trimming, and 409 when the store holds an account under
\* the lower-cased email; then no account is created or overwritten and no
\* token is created.  A signup that is not rejected adds an account under a
\* lower-cased email that had none, so that, with the requests taken one
\* after the other, no two accounts of the store have the same lower-cased
\* email.
C22_RejectedSignupChangesNothing ==
    [][/\ SignupRejected =>
             /\ users_file' = users_file
             /\ issued' = issued
             /\ resp'.status \in {400, 409}
             /\ resp'.status = 400 <=> BadSignup(req'.email, req'.password)
             /\ resp'.status = 409 <=>
                   /\ ~BadSignup(req'.email, req'.password)
                   /\ Lower(req'.email) \in DOMAIN users_file
       /\ \A t \in Threads :
             SignupAccepted(t) =>
                /\ ~BadSignup(calls'[t].data.email, calls'[t].data.password)
                /\ Lower(calls'[t].data.email) \notin DOMAIN users_file
                /\ DOMAIN calls'[t].users = DOMAIN users_file \cup {Lower(calls'[t].data.email)}
                /\ \A email \in DOMAIN users_file : calls'[t].users[email] = users_file[email]
       /\ \A e1, e2 \in DOMAIN users_file' : Lower(e1) = Lower(e2) => e1 = e2]_vars

\* ann@x.io has signed up as Ann@X.io, and a signup as ann@x.io with a good
\* password was answered 409: the store holds that one account and one token
\* was created
C22_Witness ==
    /\ req.endpoint = "signup"
    /\ req.email = "ann@x.io"
    /\ ~BadSignup(req.email, req.password)
    /\ resp.status = 409
    /\ "Ann@X.io" \notin DOMAIN users_file
    /\ DOMAIN users_file = {"ann@x.io"}
    /\ issued = 1
    /\ InTurn

\* the account is unverified and has a token, or is verified and has none
TokenIffUnverified(user) ==
    IF user.is_verified
    THEN user.verification_token = NoToken
    ELSE user.verification_token # NoToken

\* the verify request handled last took the 'already verified' branch
AnsweredAlreadyVerified ==
    /\ req.endpoint \in {"api_verify", "verify_email"}
    /\ resp = verify_response(req.endpoint, "already")

\* C23: from the empty store, after any sequence of signup and verify
\* requests, every account of the store is either unverified with a
\* verification token or verified with a null token; and no verify request
\* is answered by the 'Email already verified' branch.
C23_TokenIffUnverified ==
    /\ \A email \in DOMAIN users_file : TokenIffUnverified(users_file[email])
    /\ ~AnsweredAlreadyVerified

\* one account was verified with tok1 and has a null token, another is
\* unverified and has its token, and a verify request that came with tok1
\* again was answered as for an unknown token
C23_Witness ==
    /\ \E email \in DOMAIN users_file :
          /\ users_file[email].is_verified
          /\ users_file[email].verification_token = NoToken
    /\ \E email \in DOMAIN users_file :
          /\ ~users_file[email].is_verified
          /\ users_file[email].verification_token = Token("tok2")
    /\ req.endpoint \in {"api_verify", "verify_email"}
    /\ req.token = "tok1"
    /\ "tok1" \in verified_with
    /\ resp = verify_response(req.endpoint, "invalid")
    /\ InTurn

\* C24: every successful prediction, of /predict and of each row of
\* /upload-csv that did not fail, has as top_features a list of exactly 5
\* feature indices, pairwise distinct, each in 0..77, so that each addresses
\* an element of the aligned vector and a name of FEATURE_NAMES.
C24_TopFeaturesAreFiveIndices ==
    \A p \in Predictions :
        /\ FlatLists
        /\ Len(p.top_features) = 5
        /\ \A j \in 1..5 : p.top_features[j] \in 0..(MODEL_EXPECTED_FEATURES - 1)
        /\ \A j, k \in 1..5 : j # k => p.top_features[j] # p.top_features[k]
        /\ \A j \in 1..5 : p.top_features[j] + 1 \in 1..Len(FEATURE_NAMES)

====
